---- MODULE Spec2Model ----
(***************************************************************************)
(* Job orchestration protocol of agente-cassiano: one backend Job Engine,  *)
(* triggered and observed by the unattended scheduler script               *)
(* (scripts/daily_update.ps1) and by an interactive dashboard session      *)
(* (curadoria-web).                                                        *)
(***************************************************************************)
EXTENDS Integers, Sequences, FiniteSets, TLC

\* ------------------------------------------------------------------ bounds
MaxRuns == 2          \* pipeline runs the engine starts in one behaviour
MaxInvocations == 2   \* scheduler invocations in one behaviour
MaxClicks == 1        \* presses of the dashboard's update button
MaxInflight == 2      \* dashboard fetches in flight at once
MaxSlowCalls == 1     \* Status calls of one poll phase that take their whole timeout

\* ------------------------------------------------- program constants
maxWait == 300        \* $maxWait  (seconds)
interval == 10        \* $interval (seconds)
TimeoutSec == 30      \* -TimeoutSec of the Status call (seconds)

Null == "null"

\* ------------------------------------------------------------------ state
VARIABLES
    job,        \* engine JobState: [status, detail, run, observed]
    dataset,    \* engine CuratedDataset: [generation, items]
    pipelines,  \* number of pipelines executing
    runs,       \* runs started so far
    spc,        \* scheduler: position in the script
    elapsed,    \* scheduler: $elapsed
    status,     \* scheduler: $status as last assigned ([status, detail] or Null)
    exitCode,   \* scheduler: process exit code (-1 while running)
    slog,       \* scheduler: what the final classification logged
    healthOk,   \* scheduler: did the health probe answer (Null before it)
    nTrigger,   \* scheduler: Trigger requests sent in this invocation
    nStatus,    \* scheduler: Status requests sent in this invocation
    trigWire,   \* scheduler: how the Trigger call ended (Null before it)
    trigReply,  \* scheduler: what the engine answered the Trigger (Null: nothing)
    sobs,       \* scheduler: the last terminal status a Status call returned, with its run
    inv,        \* scheduler: invocation number
    kind,       \* dashboard: which implementation this session runs
    mounted,    \* dashboard: the view is mounted
    items,      \* dashboard: rendered item list
    lastUpdate, \* dashboard: generation of the rendered dataset
    loading,    \* dashboard: processing indicator / button disabled
    error,      \* dashboard: error banner text or Null
    statusMsg,  \* dashboard: status line or Null
    pollRef,    \* dashboard: pollRef.current (0 is null)
    timers,     \* dashboard: interval timers that are active
    nextTimer,  \* dashboard: timers created so far
    ticks,      \* dashboard: Status fetches in flight (the timer each came from)
    loadReq,    \* dashboard: the mount effect's dataset fetch
    fetches,    \* dashboard: dataset fetches in flight after a done tick
    updReq,     \* dashboard: the user's Trigger request
    clicks,     \* dashboard: Trigger requests sent by the user
    loadAuto,   \* dashboard: the auto-update flag the load's answer carried (Null before)
    dobs,       \* dashboard: the last terminal status a tick handled, with its run
    lastTick,   \* dashboard: how the last answered tick's fetch ended (Null before)
    waited      \* scheduler: seconds spent inside Status calls in this poll phase

engineVars == <<job, dataset, pipelines, runs>>
schedVars == <<spc, elapsed, status, exitCode, slog, healthOk, nTrigger, nStatus,
              trigWire, trigReply, sobs, inv, waited>>
dashVars == <<kind, mounted, items, lastUpdate, loading, error, statusMsg, pollRef,
             timers, nextTimer, ticks, loadReq, fetches, updReq, clicks, loadAuto, dobs, lastTick>>
vars == <<job, dataset, pipelines, runs, spc, elapsed, status, exitCode, slog,
         healthOk, nTrigger, nStatus, trigWire, trigReply, sobs, inv,
         kind, mounted, items, lastUpdate, loading, error, statusMsg, pollRef,
         timers, nextTimer, ticks, loadReq, fetches, updReq, clicks, loadAuto, dobs, lastTick,
         waited>>

\* ----------------------------------------------------------------- engine
ErrDetails == {"", "boom"}

\* ItemsOf with a second generation that comes out empty.
ItemsOfEmptySecond(gen) == IF gen \in {0, 2} THEN <<>> ELSE <<gen>>

\* The item list of a generation: empty before the first run, full after.
ItemsOf(gen) == IF gen = 0 THEN <<>> ELSE <<gen>>

\* Trigger(): what the engine's state becomes and what it answers.
TriggerReply(j) ==
    CASE j.status = "running" -> "attached"
      [] j.status = "idle" -> "accepted"
      [] OTHER -> "rejected"

\* TriggerJob that starts a run whenever none is running.
TriggerJobUnlessRunning(j) ==
    IF j.status # "running"
    THEN [status |-> "running", detail |-> "coletando", run |-> j.run + 1, observed |-> FALSE]
    ELSE j

TriggerJob(j) ==
    IF j.status = "idle"
    THEN [status |-> "running", detail |-> "coletando", run |-> j.run + 1, observed |-> FALSE]
    ELSE j

\* TriggerPipelines without the Running gate.
TriggerPipelinesUngated(j, p) == p + 1

TriggerPipelines(j, p) == IF j.status = "idle" THEN p + 1 ELSE p

\* The engine handles one POST /trigger.
EngineTrigger ==
    /\ job' = TriggerJob(job)
    /\ pipelines' = TriggerPipelines(job, pipelines)
    /\ runs' = IF job.status = "idle" THEN runs + 1 ELSE runs
    /\ UNCHANGED dataset

\* A Trigger that would start a run needs room for one.
CanTrigger == job.status = "idle" => runs < MaxRuns

\* Status(): a snapshot of JobState.
StatusPayload(j) == [status |-> j.status, detail |-> j.detail]

\* SwapIn that keeps the generation of the dataset it replaces.
SwapInSameGeneration(d) ==
    [generation |-> d.generation, items |-> ItemsOf(d.generation + 1)]

\* The dataset a successful pipeline swaps in for dataset d.
SwapIn(d) ==
    [generation |-> d.generation + 1, items |-> ItemsOf(d.generation + 1)]

PipelineSucceed ==
    /\ job.status = "running"
    /\ job' = [job EXCEPT !.status = "done", !.detail = "concluido"]
    /\ dataset' = SwapIn(dataset)
    /\ pipelines' = pipelines - 1
    /\ UNCHANGED <<runs, schedVars, dashVars>>

PipelineFail ==
    /\ job.status = "running"
    /\ \E d \in ErrDetails : job' = [job EXCEPT !.status = "error", !.detail = d]
    /\ pipelines' = pipelines - 1
    /\ UNCHANGED <<dataset, runs, schedVars, dashVars>>

\* Observe that resets the job in the read that observes a terminal status.
ObserveAndReset(j) ==
    IF j.status \in {"done", "error"}
    THEN [j EXCEPT !.status = "idle", !.detail = "", !.observed = FALSE]
    ELSE j

\* Status() handled by the engine: a terminal status has now been observed.
Observe(j) == IF j.status \in {"done", "error"} THEN [j EXCEPT !.observed = TRUE] ELSE j

ResetJob(j) == [j EXCEPT !.status = "idle", !.detail = "", !.observed = FALSE]

\* The engine resets once a terminal status has been observed.
ResetAfterObserved ==
    /\ job.status \in {"done", "error"}
    /\ job.observed
    /\ job' = ResetJob(job)
    /\ UNCHANGED <<dataset, pipelines, runs, schedVars, dashVars>>

\* The engine resets when its grace period has run out, observed or not.
ResetAfterGrace ==
    /\ job.status \in {"done", "error"}
    /\ job' = ResetJob(job)
    /\ UNCHANGED <<dataset, pipelines, runs, schedVars, dashVars>>

\* -------------------------------------------------------------- scheduler
\* AfterHealth with the catch block ending the script.
AfterHealthAborts(ok) == IF ok = "fail" THEN "exited" ELSE "settle"

\* After step 1: the catch block only logs, so the script goes on either way.
AfterHealth(ok) == "settle"

SchedHealth ==
    /\ spc = "health"
    /\ \E ok \in {"ok", "fail"} : healthOk' = ok /\ spc' = AfterHealth(ok)
    /\ UNCHANGED <<engineVars, dashVars, elapsed, status, exitCode, slog, nTrigger, nStatus,
                   trigWire, trigReply, sobs, inv, waited>>

SchedSettle ==
    /\ spc = "settle"
    /\ spc' = "trigger"
    /\ UNCHANGED <<engineVars, dashVars, elapsed, status, exitCode, slog, healthOk, nTrigger,
                   nStatus, trigWire, trigReply, sobs, inv, waited>>

\* What Invoke-WebRequest does with the answer: it throws on a transport error
\* and on a non-success HTTP status, and returns otherwise.
InvokeThrows(wire) == wire \in {"transport", "http_error"}

\* After step 3: exit 1 from the catch block, or on to the poll loop.
AfterTrigger(wire) == IF InvokeThrows(wire) THEN "exited" ELSE "sleep"

\* The forms a Trigger answer can take on the wire.
WireOf(reply) == IF reply = "rejected" THEN {"http_error", "body_fail"} ELSE {"ok"}

SchedTrigger ==
    /\ spc = "trigger"
    /\ \E wire \in {"lost_request", "lost_response"} \cup WireOf(TriggerReply(job)) :
        /\ IF wire = "lost_request"
           THEN UNCHANGED engineVars
           ELSE CanTrigger /\ EngineTrigger
        /\ LET w == IF wire \in {"lost_request", "lost_response"} THEN "transport" ELSE wire
           IN /\ spc' = AfterTrigger(w)
              /\ exitCode' = IF InvokeThrows(w) THEN 1 ELSE exitCode
              /\ trigWire' = w
              /\ trigReply' = IF wire = "lost_request" THEN Null ELSE TriggerReply(job)
    /\ nTrigger' = nTrigger + 1
    /\ elapsed' = 0
    /\ UNCHANGED <<dashVars, status, slog, healthOk, nStatus, sobs, inv, waited>>

\* How long one Status call can take: it answers or fails at once, or it takes
\* the whole of its timeout; the slow calls of one poll phase are bounded.
CallTimes(w) == IF w < MaxSlowCalls * TimeoutSec THEN {0, TimeoutSec} ELSE {0}

SchedSleep ==
    /\ spc = "sleep"
    /\ elapsed' = elapsed + interval
    /\ spc' = "status"
    /\ UNCHANGED <<engineVars, dashVars, status, exitCode, slog, healthOk, nTrigger, nStatus,
                   trigWire, trigReply, sobs, inv, waited>>

\* AfterStatus with a break in the catch block as well.
AfterStatusBreaksOnFailure(st, el) ==
    IF st \in {"done", "error", "failed"} THEN "classify"
    ELSE IF el < maxWait THEN "sleep" ELSE "classify"

\* AfterStatus whose while test allows twice the ceiling.
AfterStatusTwiceCeiling(st, el) ==
    IF st \in {"done", "error"} THEN "classify"
    ELSE IF el < 2 * maxWait THEN "sleep" ELSE "classify"

\* The loop test after one iteration: break on a terminal status, else while.
AfterStatus(st, el) ==
    IF st \in {"done", "error"} THEN "classify"
    ELSE IF el < maxWait THEN "sleep" ELSE "classify"

SchedStatusOk ==
    /\ spc = "status"
    /\ status' = StatusPayload(job)
    /\ sobs' = IF job.status \in {"done", "error"} THEN <<job.run, job.status>> ELSE sobs
    /\ spc' = AfterStatus(job.status, elapsed)
    /\ nStatus' = nStatus + 1
    /\ job' = Observe(job)
    /\ \E took \in CallTimes(waited) : waited' = waited + took
    /\ UNCHANGED <<dataset, pipelines, runs, dashVars, elapsed, exitCode, slog, healthOk,
                   nTrigger, trigWire, trigReply, inv>>

SchedStatusFail ==
    /\ spc = "status"
    /\ spc' = AfterStatus("failed", elapsed)
    /\ nStatus' = nStatus + 1
    /\ \E took \in CallTimes(waited) : waited' = waited + took
    /\ UNCHANGED <<engineVars, dashVars, elapsed, status, exitCode, slog, healthOk, nTrigger,
                   trigWire, trigReply, sobs, inv>>

\* Classify with the ceiling itself still inside the poll phase.
ClassifyPastCeiling(el) == IF el > maxWait THEN "TIMEOUT" ELSE "finalizado"

\* The final if: which line the script logs.
Classify(el) == IF el >= maxWait THEN "TIMEOUT" ELSE "finalizado"

\* The script's exit code when it runs off its end.
EndExitCode(logged) == 0

SchedClassify ==
    /\ spc = "classify"
    /\ slog' = Classify(elapsed)
    /\ exitCode' = EndExitCode(Classify(elapsed))
    /\ spc' = "exited"
    /\ UNCHANGED <<engineVars, dashVars, elapsed, status, healthOk, nTrigger, nStatus,
                   trigWire, trigReply, sobs, inv, waited>>

\* The task scheduler starts the next invocation.
SchedInvoke ==
    /\ spc = "exited"
    /\ inv < MaxInvocations
    /\ inv' = inv + 1
    /\ spc' = "health"
    /\ elapsed' = 0
    /\ status' = [status |-> Null, detail |-> Null]
    /\ exitCode' = -1
    /\ slog' = Null
    /\ healthOk' = Null
    /\ nTrigger' = 0
    /\ nStatus' = 0
    /\ trigWire' = Null
    /\ trigReply' = Null
    /\ sobs' = <<0, Null>>
    /\ waited' = 0
    /\ UNCHANGED <<engineVars, dashVars>>

\* -------------------------------------------------------------- dashboard
Kinds == {"App", "Framer", "FramerOld"}

\* JavaScript's  x || fallback  on a string that may be missing or empty.
OrElse(x, fallback) == IF x \in {Null, ""} THEN fallback ELSE x

\* A field of the parsed Status body; the body carries status and detail.
Field(resp, name) == IF name = "detail" THEN resp.detail ELSE Null

\* The field each implementation reads for the text of a Status answer.
MsgField(k) == IF k = "App" THEN "message" ELSE "detail"

\* GET /status as a driver's fetch sees it.
StatusAnswers(j) ==
    { [net |-> "ok", status |-> j.status, detail |-> j.detail, run |-> j.run],
      [net |-> "http_error", status |-> Null, detail |-> Null, run |-> 0],
      [net |-> "transport", status |-> Null, detail |-> Null, run |-> 0] }

\* GET /dataset: the auto-updating flag reports a job in progress.
DatasetAuto(j) == j.status = "running"

\* Does the tick handler get to look at the body.
TickReads(k, a) == IF k = "FramerOld" THEN a.net # "transport" ELSE a.net = "ok"

\* stopPolling(): the timers left.
stopPolling(tm, ref) == IF ref # 0 THEN tm \ {ref} ELSE tm

\* The timers left after a tick handled a terminal status.
TerminalClear(k, tm, ref, own) == IF k = "FramerOld" THEN tm \ {own} ELSE stopPolling(tm, ref)

\* pollStatus(): a new interval timer; App and Framer keep it in pollRef.
pollStatus ==
    /\ nextTimer' = nextTimer + 1
    /\ timers' = timers \cup {nextTimer + 1}
    /\ pollRef' = IF kind = "FramerOld" THEN pollRef ELSE nextTimer + 1

Remove(seq, i) == SubSeq(seq, 1, i - 1) \o SubSeq(seq, i + 1, Len(seq))

\* What fetchData() does with a successful answer.
fetchDataOk ==
    /\ items' = dataset.items
    /\ lastUpdate' = dataset.generation
    /\ error' = IF kind = "App" THEN Null ELSE error

\* AutoAttach with fetchData's result dropped, as in Framer.
AutoAttachIgnored(k, m, auto) == FALSE

\* AutoAttach without the mounted flag.
AutoAttachUnmounted(k, m, auto) == k = "App" /\ auto

\* The mount effect's test before it attaches to a job in progress.
AutoAttach(k, m, auto) == k = "App" /\ m /\ auto

\* The mount effect's fetch answers.
LoadReply ==
    /\ loadReq = "pending"
    /\ loadReq' = "done"
    /\ \E ok \in BOOLEAN :
        /\ IF ok THEN fetchDataOk ELSE UNCHANGED <<items, lastUpdate, error>>
        /\ LET auto == ok /\ DatasetAuto(job) IN
            /\ loadAuto' = IF ~ok THEN "failed" ELSE IF auto THEN "yes" ELSE "no"
            /\ IF AutoAttach(kind, mounted, auto)
               THEN /\ loading' = TRUE
                    /\ statusMsg' = "Carregando conteudo pela primeira vez..."
                    /\ pollStatus
               ELSE UNCHANGED <<loading, statusMsg, pollRef, timers, nextTimer>>
    /\ UNCHANGED <<engineVars, schedVars, kind, mounted, ticks, fetches, updReq, clicks, dobs, lastTick>>

\* An interval timer fires: one more Status fetch is in flight. Framer's old
\* handler closes over its own timer; the others go through pollRef.
TickFire ==
    /\ \E t \in timers :
        ticks' = Append(ticks, IF kind = "FramerOld" THEN t ELSE 0)
    /\ Len(ticks) + fetches < MaxInflight
    /\ UNCHANGED <<engineVars, schedVars, kind, mounted, items, lastUpdate, loading, error,
                   statusMsg, pollRef, timers, nextTimer, loadReq, fetches, updReq, clicks,
                   loadAuto, dobs, lastTick>>

\* The text a tick shows for a running job.
RunningMsg(k, a, old) ==
    IF k = "FramerOld" THEN OrElse(a.detail, "")
    ELSE IF a.status = "running" THEN OrElse(Field(a, MsgField(k)), "Processando...")
    ELSE old

\* The text of the error banner for a Status answer with status error.
ErrorMsg(k, a) == OrElse(Field(a, MsgField(k)), "Erro ao atualizar")

\* TickStops with the catch block and the res.ok test stopping the timer too.
TickStopsOnFailure(k, a) == TickReads(k, a) => a.status \in {"done", "error"}

\* Does the tick handler stop polling: only in its done and error branches.
TickStops(k, a) == TickReads(k, a) /\ a.status \in {"done", "error"}

\* TickRefetches with the error branch fetching the dataset as well.
TickRefetchesOnTerminal(k, a) == TickReads(k, a) /\ a.status \in {"done", "error"}

\* Does the tick handler fetch the dataset: only in its done branch.
TickRefetches(k, a) == TickReads(k, a) /\ a.status = "done"

\* The Status fetch of a tick answers and the tick's handler runs.
TickReplyAt(i, a) ==
        LET own == ticks[i]
            reads == TickReads(kind, a)
            terminal == TickStops(kind, a)
        IN
        /\ ticks' = Remove(ticks, i)
        /\ timers' = IF terminal THEN TerminalClear(kind, timers, pollRef, own) ELSE timers
        /\ pollRef' = IF terminal /\ kind # "FramerOld" THEN 0 ELSE pollRef
        /\ loading' = IF terminal THEN FALSE ELSE loading
        /\ statusMsg' = IF terminal THEN (IF kind = "FramerOld" THEN "" ELSE Null)
                        ELSE IF reads THEN RunningMsg(kind, a, statusMsg)
                        ELSE statusMsg
        /\ error' = IF reads /\ a.status = "error" THEN ErrorMsg(kind, a) ELSE error
        /\ fetches' = IF TickRefetches(kind, a) THEN fetches + 1 ELSE fetches
        /\ dobs' = IF terminal THEN <<a.run, a.status>> ELSE dobs
        /\ lastTick' = IF a.net = "ok" THEN a.status ELSE a.net
        /\ job' = IF a.net = "ok" THEN Observe(job) ELSE job
        /\ UNCHANGED <<dataset, pipelines, runs, schedVars, kind, mounted, items, lastUpdate, nextTimer,
                       loadReq, updReq, clicks, loadAuto>>

TickReply == \E i \in 1..Len(ticks) : \E a \in StatusAnswers(job) : TickReplyAt(i, a)

\* The dataset fetch a done tick started answers.
FetchReply ==
    /\ fetches > 0
    /\ fetches' = fetches - 1
    /\ \E ok \in BOOLEAN :
        IF ok THEN fetchDataOk ELSE UNCHANGED <<items, lastUpdate, error>>
    /\ UNCHANGED <<engineVars, schedVars, kind, mounted, loading, statusMsg, pollRef, timers,
                   nextTimer, ticks, loadReq, updReq, clicks, loadAuto, dobs, lastTick>>

\* The user presses the update button: handleUpdate up to its await.
handleUpdate ==
    /\ mounted
    /\ ~loading
    /\ clicks < MaxClicks
    /\ clicks' = clicks + 1
    /\ updReq' = updReq + 1
    /\ loading' = TRUE
    /\ error' = Null
    /\ statusMsg' = IF kind = "FramerOld" THEN "Iniciando..." ELSE "Iniciando coleta de dados..."
    /\ UNCHANGED <<engineVars, schedVars, kind, mounted, items, lastUpdate, pollRef, timers,
                   nextTimer, ticks, loadReq, fetches, loadAuto, dobs, lastTick>>

\* Does handleUpdate take the answer for a started update.
UpdateAccepted(k, wire) ==
    IF k = "FramerOld" THEN wire = "ok" ELSE wire \in {"ok", "body_fail"}

\* The banner text handleUpdate sets when the Trigger request failed.
UpdateError(k, wire) ==
    CASE k = "App" /\ wire = "abort" ->
            "Timeout na conexao. O servidor pode estar iniciando (cold start). Tente novamente em 30s."
      [] k = "App" -> "Falha na conexao com o servidor. Verifique se a API esta rodando."
      [] k = "FramerOld" /\ wire \in {"body_fail", "http_error"} -> "Erro ao iniciar atualizacao"
      [] OTHER -> "Falha na conexao com o servidor"

\* The ways a dashboard's Trigger request can end without an answer.
LostWires(k) ==
    IF k = "App" THEN {"lost_request", "lost_response", "abort_request", "abort_response"}
    ELSE {"lost_request", "lost_response"}

\* The user's Trigger request ends: the rest of handleUpdate.
UpdateReply ==
    /\ updReq > 0
    /\ updReq' = updReq - 1
    /\ \E wire \in LostWires(kind) \cup WireOf(TriggerReply(job)) :
        /\ IF wire \in {"lost_request", "abort_request"}
           THEN UNCHANGED engineVars
           ELSE CanTrigger /\ EngineTrigger
        /\ LET w == CASE wire \in {"lost_request", "lost_response"} -> "transport"
                      [] wire \in {"abort_request", "abort_response"} -> "abort"
                      [] OTHER -> wire
           IN IF UpdateAccepted(kind, w)
              THEN pollStatus /\ UNCHANGED <<loading, error, statusMsg>>
              ELSE /\ loading' = FALSE
                   /\ error' = UpdateError(kind, w)
                   /\ statusMsg' = IF kind = "FramerOld" THEN statusMsg ELSE Null
                   /\ UNCHANGED <<pollRef, timers, nextTimer>>
    /\ UNCHANGED <<schedVars, kind, mounted, items, lastUpdate, ticks, loadReq, fetches,
                   clicks, loadAuto, dobs, lastTick>>

\* The timers left after the view's effect cleanups ran.
CleanupTimers(k, tm, ref) == IF k = "FramerOld" THEN tm ELSE stopPolling(tm, ref)

\* The user leaves the view.
Unmount ==
    /\ mounted
    /\ mounted' = FALSE
    /\ timers' = CleanupTimers(kind, timers, pollRef)
    /\ pollRef' = 0
    /\ UNCHANGED <<engineVars, schedVars, kind, items, lastUpdate, loading, error, statusMsg,
                   nextTimer, ticks, loadReq, fetches, updReq, clicks, loadAuto, dobs, lastTick>>

\* A Trigger from a caller outside the model (another session, a manual call).
OtherTrigger ==
    /\ CanTrigger
    /\ EngineTrigger
    /\ UNCHANGED <<schedVars, dashVars>>

\* ------------------------------------------------------------------- spec
EngineInit ==
    /\ job = [status |-> "idle", detail |-> "", run |-> 0, observed |-> FALSE]
    /\ dataset = [generation |-> 0, items |-> ItemsOf(0)]
    /\ pipelines = 0
    /\ runs = 0

\* The scheduled task has fired (spc = "health") or never fires (spc = "off").
SchedInit(on) ==
    /\ spc = IF on THEN "health" ELSE "off"
    /\ elapsed = 0
    /\ status = [status |-> Null, detail |-> Null]
    /\ exitCode = -1
    /\ slog = Null
    /\ healthOk = Null
    /\ nTrigger = 0
    /\ nStatus = 0
    /\ trigWire = Null
    /\ trigReply = Null
    /\ sobs = <<0, Null>>
    /\ inv = 1
    /\ waited = 0

\* The view has just mounted, its dataset fetch in flight, or is never opened.
DashInit(on) ==
    /\ kind \in IF on THEN Kinds ELSE {"App"}
    /\ mounted = on
    /\ items = <<>>
    /\ lastUpdate = -1
    /\ loading = FALSE
    /\ error = Null
    /\ statusMsg = Null
    /\ pollRef = 0
    /\ timers = {}
    /\ nextTimer = 0
    /\ ticks = <<>>
    /\ loadReq = IF on THEN "pending" ELSE "none"
    /\ fetches = 0
    /\ updReq = 0
    /\ clicks = 0
    /\ loadAuto = Null
    /\ dobs = <<0, Null>>
    /\ lastTick = Null

NextEngine ==
    \/ PipelineSucceed
    \/ PipelineFail
    \/ ResetAfterObserved
    \/ ResetAfterGrace
    \/ OtherTrigger

NextSched ==
    \/ SchedHealth
    \/ SchedSettle
    \/ SchedTrigger
    \/ SchedSleep
    \/ SchedStatusOk
    \/ SchedStatusFail
    \/ SchedClassify
    \/ SchedInvoke

NextDash ==
    \/ LoadReply
    \/ TickFire
    \/ TickReply
    \/ FetchReply
    \/ handleUpdate
    \/ UpdateReply
    \/ Unmount

\* One driver against the engine: a scheduler behaviour or a dashboard session.
Init ==
    /\ EngineInit
    /\ \E on \in BOOLEAN : SchedInit(on) /\ DashInit(~on)

Next == NextEngine \/ NextSched \/ NextDash

Spec == Init /\ [][Next]_vars

\* Both drivers against one engine: one scheduler invocation beside one
\* dashboard session that stays open and attaches on load, its ticks answered
\* one at a time, the engine resetting once a terminal status was observed.
InitBoth == EngineInit /\ SchedInit(TRUE) /\ DashInit(TRUE)

TickFireAlone == TickFire /\ ticks = <<>> /\ fetches = 0

NextBoth ==
    \/ PipelineSucceed
    \/ PipelineFail
    \/ ResetAfterObserved
    \/ SchedHealth
    \/ SchedSettle
    \/ SchedTrigger
    \/ SchedSleep
    \/ SchedStatusOk
    \/ SchedStatusFail
    \/ SchedClassify
    \/ LoadReply
    \/ TickFireAlone
    \/ TickReply
    \/ FetchReply

\* A tick's Status fetch is answered by the engine.
TickReplyOk ==
    \E i \in 1..Len(ticks) :
        TickReplyAt(i, [net |-> "ok", status |-> job.status, detail |-> job.detail,
                        run |-> job.run])

\* Every pipeline ends, every request is answered, every timer and every step of
\* the script comes round, and Status calls succeed again and again.
FairBoth ==
    /\ WF_vars(PipelineSucceed \/ PipelineFail)
    /\ WF_vars(ResetAfterObserved)
    /\ WF_vars(SchedHealth \/ SchedSettle \/ SchedTrigger \/ SchedSleep \/ SchedClassify)
    /\ SF_vars(SchedStatusOk)
    /\ WF_vars(LoadReply \/ FetchReply)
    /\ SF_vars(TickFireAlone)
    /\ SF_vars(TickReplyOk)

BothSpec == InitBoth /\ [][NextBoth]_vars /\ FairBoth

\* One dashboard session against the engine, with no scheduler.
SessionInit == EngineInit /\ SchedInit(FALSE) /\ DashInit(TRUE)

NextSession == NextEngine \/ NextDash

\* handleUpdate's abort timer fires: the Trigger request ends as aborted.
UpdateTimeout == UpdateReply /\ kind = "App" /\ error' = UpdateError("App", "abort")

\* A timer that was set fires: the only thing the session's code guarantees
\* about a pending Trigger request.
SessionSpec == SessionInit /\ [][NextSession]_vars /\ WF_vars(UpdateTimeout)

\* The scheduler's invocations against the engine, with no session and no
\* other caller.
SchedOnlyInit == EngineInit /\ SchedInit(TRUE) /\ DashInit(FALSE)

NextSchedOnly ==
    \/ PipelineSucceed
    \/ PipelineFail
    \/ ResetAfterObserved
    \/ ResetAfterGrace
    \/ NextSched

\* Every statement of the script completes: a sleep ends, and each web request
\* returns or throws within its -TimeoutSec.
FairSched ==
    /\ WF_vars(SchedHealth)
    /\ WF_vars(SchedSettle)
    /\ WF_vars(SchedTrigger)
    /\ WF_vars(SchedSleep)
    /\ WF_vars(SchedStatusOk \/ SchedStatusFail)
    /\ WF_vars(SchedClassify)

SchedSpec == SchedOnlyInit /\ [][NextSchedOnly]_vars /\ FairSched

\* ----------------------------------------------------------------- claims
\* The scheduler invocation got past step 3 and has ended.
SchedPolledAndExited == spc = "exited" /\ trigWire \notin {Null, "transport", "http_error"}

\* C1: an ended invocation's exit code is 0 exactly when a Status call returned
\* done; it is non-zero when one returned error; and when the ceiling was
\* reached with no terminal status it is non-zero and differs from the code of
\* an invocation whose poll loop was ended by a terminal status.
C1_ExitCodeTellsOutcome ==
    spc = "exited" =>
        /\ (exitCode = 0) <=> (sobs[2] = "done")
        /\ sobs[2] = "error" => exitCode # 0
        /\ (SchedPolledAndExited /\ sobs[2] = Null) =>
               exitCode # 0 /\ exitCode # EndExitCode("finalizado")

\* C2: an invocation that got past the Trigger step reports the outcome it
\* observed: timeout exactly when no Status call returned done or error, and
\* a finished pipeline only when one returned done or error.
C2_OutcomeMatchesObserved ==
    SchedPolledAndExited =>
        /\ (slog = "TIMEOUT") <=> (sobs[2] = Null)
        /\ (slog = "finalizado") => sobs[2] \in {"done", "error"}

\* C3: once the Trigger call has failed, by transport error, non-success HTTP
\* status or non-success body, the invocation has ended with a failure exit,
\* having sent one Trigger request and no Status request.
C3_FailedTriggerAborts ==
    trigWire \in {"transport", "http_error", "body_fail"} =>
        /\ spc = "exited"
        /\ exitCode # 0
        /\ nTrigger = 1
        /\ nStatus = 0

\* C9: when an invocation sends its Trigger request it has already sent a
\* Status request.
C9_StatusBeforeTrigger == [][SchedTrigger => nStatus > 0]_vars

\* The view was mounted and has been torn down.
TornDown == ~mounted /\ loadReq # "none"

\* C4: after the view is torn down no poll timer of it is active, in every
\* later state, whatever was in flight at teardown.
C4_NoTimerAfterTeardown == TornDown => timers = {}

\* What a session shows and whether it polls.
sessionView == <<items, lastUpdate, loading, error, statusMsg, pollRef, timers, fetches>>

C10_ErrorDetailVerbatim ==
    [][ /\ (SchedStatusOk /\ job.status = "error") => status'.detail = job.detail
        /\ \A i \in 1..Len(ticks) : \A a \in StatusAnswers(job) :
            (TickReplyAt(i, a) /\ a.net = "ok" /\ a.status = "error") =>
                error' = IF a.detail = "" THEN "Erro ao atualizar" ELSE a.detail
      ]_vars

\* C6: at most one pipeline executes, and it does exactly while the status is
\* running; a Trigger that reaches the engine while the status is running
\* leaves the job, the run count and the pipeline as they are and is answered
\* with success, after which the scheduler goes on to its poll loop and the
\* session has started its poll timer, unless the request or its answer was
\* lost in transport; a run that has left running is never running again.
C6_TriggerWhileRunningAttaches ==
    [][ /\ pipelines' <= 1
        /\ (pipelines' = 1) <=> (job'.status = "running")
        /\ (job.status = "running" /\ (SchedTrigger \/ UpdateReply \/ OtherTrigger)) =>
               job' = job /\ pipelines' = pipelines /\ runs' = runs
        /\ (job.status = "running" /\ SchedTrigger /\ trigReply' # Null) =>
               /\ trigReply' = "attached"
               /\ trigWire' = "ok" => spc' = "sleep" /\ nTrigger' = 1
               /\ trigWire' # "ok" => trigWire' = "transport"
        /\ (job.status = "running" /\ UpdateReply) =>
               \/ nextTimer' = nextTimer + 1 /\ nextTimer' \in timers'
               \/ /\ ~loading' /\ timers' = timers
                  /\ error' \in {UpdateError(kind, "transport"), UpdateError(kind, "abort")}
        /\ (job.status # "running" /\ job'.status = "running") => job'.run = job.run + 1
        /\ (job.status = "running" /\ job'.status # "running") =>
               job'.run = job.run /\ job'.status \in {"done", "error"}
      ]_vars

\* C6 witness: the scheduler's Trigger met a run in progress, was answered with
\* success, and the scheduler is polling that one run.
C6_Witness ==
    /\ trigReply = "attached" /\ trigWire = "ok"
    /\ spc = "status" /\ job.status = "running" /\ pipelines = 1

\* The scheduler and the session poll run r, the session through the one
\* timer pollRef holds, with no other request of the session pending.
BothPolling(r) ==
    /\ job.run = r /\ job.status = "running"
    /\ spc \in {"sleep", "status"}
    /\ mounted /\ loading /\ timers = {pollRef}
    /\ updReq = 0 /\ loadReq = "done"

\* C7: when the scheduler and a session both poll a run, the session comes to
\* handle that run's terminal status, stops polling and clears its indicator,
\* and the scheduler comes to observe the same status unless its ceiling ends
\* its loop first.
C7_BothObserveTerminal ==
    \A r \in 1..MaxRuns :
        BothPolling(r) ~>
            /\ dobs[1] = r /\ timers = {} /\ ~loading
            /\ (sobs[1] = r /\ sobs[2] = dobs[2]) \/ slog = "TIMEOUT"

\* C11: the rendered list and its generation change only in a step in which
\* a dataset fetch of the session succeeds, never in a Status tick, whatever
\* it reports or however it fails, nor in a step of handleUpdate; they then
\* become the engine's whole current list and its generation; a list that is
\* not empty never becomes empty.
C11_ItemsKeptWhilePolling ==
    [][ /\ (items' # items \/ lastUpdate' # lastUpdate) =>
               /\ LoadReply \/ FetchReply
               /\ ticks' = ticks /\ updReq' = updReq /\ timers \subseteq timers'
               /\ items' = dataset.items
               /\ lastUpdate' = dataset.generation
        /\ items # <<>> => items' # <<>>
      ]_vars

\* C11 witness: a session that shows the first generation polls the second
\* run after the user's Trigger, has handled a tick that reported running, and
\* still shows the first generation.
C11_Witness ==
    /\ loading /\ pollRef \in timers
    /\ clicks = 1
    /\ job.run = 2 /\ lastTick = "running"
    /\ items = ItemsOf(1) /\ lastUpdate = 1

\* C12: a Trigger request the user started comes to an end, by its answer or
\* by the session's own timeout, whatever the network does.
C12_TriggerRequestBounded == (updReq > 0) ~> (updReq = 0)

\* C13: an active poll timer is removed only by a tick whose Status answer
\* reports done or error, or by teardown; after a tick that reports anything
\* else, or that fails, the timers are as they were and the session still
\* shows its indicator; and a timer that is active can always fire again.
C13_PollingHasNoDeadline ==
    [][ /\ (timers \ timers' # {}) =>
               \/ mounted /\ ~mounted'
               \/ Len(ticks') < Len(ticks) /\ lastTick' \in {"done", "error"}
        /\ (Len(ticks') < Len(ticks) /\ lastTick' \notin {"done", "error"}) =>
               timers' = timers /\ pollRef' = pollRef /\ loading' = loading
        /\ (timers # {} /\ Len(ticks) + fetches < MaxInflight) => ENABLED TickFire
      ]_vars

\* C13 witness: after a tick that failed or reported running, the timer is
\* still active and its next Status call is in flight.
C13_Witness ==
    /\ pollRef \in timers /\ loading
    /\ lastTick \in {"running", "transport", "http_error"}
    /\ ticks # <<>>

\* C14: an invocation sends at most one Trigger; apart from what that Trigger
\* and its Status reads do in the engine (start a run, mark a terminal status
\* as observed), no step of the script changes the job, the dataset or the
\* pipeline, so reaching the ceiling cancels nothing; and an invocation whose
\* polls saw no terminal status up to the ceiling logs the timeout.
C14_TimeoutLeavesJobRunning ==
    [][ /\ nTrigger' <= 1
        /\ (SchedHealth \/ SchedSettle \/ SchedSleep \/ SchedStatusFail
               \/ SchedClassify \/ SchedInvoke) => UNCHANGED engineVars
        /\ (SchedStatusOk \/ SchedStatusFail) =>
               /\ job'.status = job.status /\ job'.run = job.run
               /\ UNCHANGED <<dataset, pipelines, runs>>
        /\ (SchedClassify /\ sobs[2] = Null) =>
               /\ slog' = "TIMEOUT"
               /\ job' = job /\ pipelines' = pipelines
        /\ (slog = "TIMEOUT" /\ job.status = "running") =>
               ENABLED PipelineSucceed
      ]_vars

\* C14 witness: the invocation logged the timeout with no terminal status
\* seen, and the run it triggered has since ended: Status now reports done.
C14_Witness ==
    /\ spc = "exited" /\ slog = "TIMEOUT" /\ sobs[2] = Null
    /\ trigReply = "accepted"
    /\ job.run = 1 /\ StatusPayload(job).status = "done"

\* C15: whether the health probe answered or failed, the script goes on to the
\* settle delay, sends its one Trigger, and ends its poll phase with the log
\* line and exit code that the elapsed time alone decides; an invocation
\* that saw done before the ceiling logs that the pipeline finished and exits 0.
C15_FailedProbeIgnored ==
    [][ /\ SchedHealth => spc' = "settle" /\ exitCode' = exitCode /\ UNCHANGED engineVars
        /\ SchedSettle => spc' = "trigger"
        /\ SchedTrigger => nTrigger' = 1
        /\ SchedClassify => slog' = Classify(elapsed) /\ exitCode' = 0
        /\ (SchedClassify /\ sobs[2] = "done" /\ elapsed < maxWait) =>
               slog' = "finalizado" /\ exitCode' = 0
      ]_vars

\* C15 witness: the probe failed, the Trigger started a run, a Status call
\* returned done and the invocation ended as a success.
C15_Witness ==
    /\ healthOk = "fail" /\ trigReply = "accepted" /\ trigWire = "ok"
    /\ spc = "exited" /\ sobs = <<1, "done">>
    /\ slog = "finalizado" /\ exitCode = 0

\* Seconds since the poll phase began: the sleeps and the Status calls.
wallClock == elapsed + waited

\* C16: when the poll phase has ended, no more than maxWait seconds have gone
\* by since it began, the time spent inside Status calls included.
C16_CeilingIsWallClock ==
    (spc \in {"classify", "exited"} /\ nStatus > 0) => wallClock <= maxWait

\* The transitions the job status may make.
JobTransitions ==
    { <<"idle", "running">>, <<"running", "done">>, <<"running", "error">>,
      <<"done", "idle">>, <<"error", "idle">> }

\* C17: whatever step is taken, by the engine, the scheduler, a session or
\* another caller, the job status stays as it is or changes along idle to
\* running, running to done, running to error, done to idle or error to idle.
C17_StatusTransitions ==
    [][ job'.status # job.status => <<job.status, job'.status>> \in JobTransitions ]_vars

\* C17 witness: the status has gone round the whole cycle and a second run
\* has ended in error after the first ended in done.
C17_Witness ==
    /\ job.run = 2 /\ job.status = "error"
    /\ dataset.generation = 1

\* C18: the dataset is replaced only by the step that ends a run in done, and
\* that step raises the generation; the Trigger that starts a run and every
\* step taken while the run is in progress leave the dataset as it is, so
\* the generation a done transition carries is greater than the one read just
\* before the run's Trigger; the generation never exceeds the number of runs
\* started and is at least 1 once a run has ended in done.
C18_GenerationIncreases ==
    [][ /\ dataset' # dataset =>
               /\ job.status = "running" /\ job'.status = "done"
               /\ dataset'.generation > dataset.generation
        /\ (job.status = "running" /\ job'.status = "done") =>
               dataset'.generation > dataset.generation
        /\ (job'.status = "running") => dataset' = dataset
        /\ dataset'.generation <= runs'
        /\ (job'.status = "done") => dataset'.generation >= 1
      ]_vars

\* C18 witness: the second successful run has ended and carries generation 2.
C18_Witness ==
    /\ job.status = "done" /\ job.run = 2
    /\ dataset.generation = 2

\* C19: the step that ends a run in error leaves the dataset as it is, as do
\* the run's Trigger and every step while it is in progress; a tick that
\* reads status error leaves the rendered items and their generation as they
\* are and starts no dataset fetch.
C19_ErrorLeavesDataset ==
    [][ /\ (job'.status = "error") => dataset' = dataset
        /\ (job.status = "running" /\ job'.status = "error") =>
               UNCHANGED <<dataset, items, lastUpdate>>
        /\ (job.status = "idle" /\ job'.status = "running") => dataset' = dataset
        /\ (Len(ticks') < Len(ticks) /\ lastTick' = "error") =>
               /\ items' = items /\ lastUpdate' = lastUpdate
               /\ fetches' = fetches
               /\ dataset' = dataset
      ]_vars

\* C19 witness: a session that shows the first generation has handled the
\* error of the second run; it still shows the first generation, which is
\* still the engine's dataset.
C19_Witness ==
    /\ dobs = <<2, "error">> /\ error # Null
    /\ items = ItemsOf(1) /\ lastUpdate = 1
    /\ dataset = [generation |-> 1, items |-> ItemsOf(1)]
    /\ fetches = 0

\* C20: a Status call, by the scheduler or by a session's tick, returns the
\* snapshot of the job as it is and leaves the payload of the next call as it
\* was; the payload changes only in a step that changes the job's status
\* (a Trigger that starts a run, the end of a run, a reset).
C20_StatusIdempotent ==
    [][ /\ (nStatus' # nStatus /\ spc = "status") =>
               /\ StatusPayload(job') = StatusPayload(job)
               /\ status' = status \/ status' = StatusPayload(job)
        /\ Len(ticks') # Len(ticks) => StatusPayload(job') = StatusPayload(job)
        /\ StatusPayload(job') # StatusPayload(job) =>
               /\ job'.status # job.status
               /\ PipelineSucceed \/ PipelineFail \/ ResetAfterObserved \/ ResetAfterGrace
                    \/ OtherTrigger \/ SchedTrigger \/ UpdateReply
      ]_vars

\* C20 witness: the scheduler's Status call returned a terminal status, the
\* engine has marked it observed, and the job still reports that status.
C20_Witness ==
    /\ job.observed
    /\ sobs = <<job.run, job.status>>
    /\ status = StatusPayload(job)
    /\ nStatus >= 2

\* The steps of the script, in the order the claim gives them.
StepRank ==
    [health |-> 1, settle |-> 2, trigger |-> 3, sleep |-> 4, status |-> 4,
     classify |-> 5, exited |-> 6, off |-> 0]

\* C21: the probe has been made before the settle delay, no Trigger is sent
\* before both, an invocation sends at most one Trigger, and it is in its poll
\* phase or past it only after its Trigger reached the engine and was answered
\* with success, that is, started a run or attached to the one in progress.
C21_StepsInOrder ==
    /\ nTrigger <= 1
    /\ StepRank[spc] >= 2 => healthOk # Null
    /\ (StepRank[spc] \in {1, 2, 3}) => nTrigger = 0 /\ nStatus = 0 /\ slog = Null
    /\ (StepRank[spc] \in {4, 5} \/ nStatus > 0 \/ slog # Null) =>
           /\ nTrigger = 1
           /\ trigWire = "ok"
           /\ trigReply \in {"accepted", "attached"}

\* Status calls the ceiling allows: 300 s / 10 s.
MaxPolls == maxWait \div interval

\* C22: an invocation makes at most 30 Status calls, each after one more
\* interval of sleep than the one before, and every invocation that has begun
\* comes to its end, whatever the Status calls return and whether they fail.
C22_InvocationTerminates ==
    /\ [](nStatus <= MaxPolls)
    /\ [](spc = "status" => elapsed = (nStatus + 1) * interval)
    /\ [](spc \in {"sleep", "classify", "exited"} /\ nTrigger = 1 /\ exitCode # 1
             => elapsed = nStatus * interval)
    /\ \A n \in 1..MaxInvocations :
           (inv = n /\ spc = "health") ~> (inv = n /\ spc = "exited")

\* C22 witness: an invocation has ended after 30 Status calls, none of which
\* returned a terminal status.
C22_Witness ==
    /\ spc = "exited" /\ nStatus = MaxPolls
    /\ sobs[2] = Null /\ status.status \in {Null, "running", "idle"}

\* C23: in a session of App or of part_001's component at most one poll timer
\* is active, and an active timer is the one pollRef holds.
C23_OneTimerInPollRef ==
    kind \in {"App", "Framer"} =>
        /\ Cardinality(timers) <= 1
        /\ timers # {} => timers = {pollRef}

\* C24: in a session that is open, whenever a poll timer is active the loading
\* flag is set.
C24_PollingImpliesLoading ==
    (mounted /\ timers # {}) => loading

\* C25: in a session of App or of part_001's component, a Status tick that is
\* answered when no poll timer is active any more, the terminal answer having
\* been handled, changes nothing the session shows or holds and starts no
\* dataset fetch.
C25_TerminalHandledOnce ==
    [][ (kind \in {"App", "Framer"} /\ timers = {} /\ dobs[2] # Null
           /\ Len(ticks') < Len(ticks)) =>
            sessionView' = sessionView
      ]_vars

\* C26: when the initial dataset fetch is answered after the view was torn
\* down, whatever the answer's auto-update flag, the loading flag, the status
\* line, the timers and pollRef stay as they were and no timer is created.
C26_NoAttachAfterTeardown ==
    [][ (loadReq = "pending" /\ loadReq' = "done" /\ ~mounted) =>
            /\ loading' = loading /\ statusMsg' = statusMsg
            /\ timers' = timers /\ pollRef' = pollRef /\ nextTimer' = nextTimer
      ]_vars

\* C26 witness: App was torn down with its initial fetch pending, the answer
\* came with the flag set, and the session neither loads nor polls.
C26_Witness ==
    /\ kind = "App" /\ ~mounted /\ loadAuto = "yes"
    /\ clicks = 0 /\ nextTimer = 0
    /\ ~loading /\ timers = {}

====
